---- MODULE Spec2Model ----
(***************************************************************************)
(* cryptowatcher: the live-data state engine.                              *)
(*                                                                         *)
(*   src/src/main.rs  argument validation (main) and the event loop (run)  *)
(*   src/src/app.rs   CoinData (rolling price history) and App             *)
(*   src/src/api.rs   BinanceClient: the concurrent per-symbol requests    *)
(*   src/src/ui.rs    render, the grid layout and the formatters           *)
(*                                                                         *)
(* Strings are sequences of one-character strings, so that trim,           *)
(* to_uppercase, is_alphanumeric, replace and the formatters are computed, *)
(* not assumed.  Prices and the other f64 fields of a coin are integers:   *)
(* the operations on them copy, compare, add and subtract, and the tenth   *)
(* of price_bounds is kept exact by returning tenths.  The f64 a formatter *)
(* takes is a decimal number with thousandths, see F64.  Arithmetic is     *)
(* exact throughout: the rounding of f64 itself is not modelled.           *)
(*                                                                         *)
(* Specifications: Spec (main and the event loop), SpecMain (the argument  *)
(* list), SpecNav (scrolling), SpecSeries (one long price series),         *)
(* SpecCoin (one CoinData), SpecFormat (the formatters), SpecLayout (the   *)
(* grid layout).                                                           *)
(***************************************************************************)
EXTENDS Integers, Sequences, FiniteSets, TLC

(***************************************************************************)
(* Program constants.                                                      *)
(***************************************************************************)
\* app.rs:8   const MAX_HISTORY: usize = 60;
MAX_HISTORY == 60
\* main.rs:22 const MAX_COINS: usize = 20;
MAX_COINS == 20
\* app.rs:164 the literal in coins.len().saturating_sub(2)
SCROLL_WINDOW == 2

(***************************************************************************)
(* Bounds of the model.                                                    *)
(***************************************************************************)
\* refresh rounds the event loop may start after the two startup rounds
MaxRounds == 1
\* updates applied to one CoinData in the series specification
MaxAppends == 130
\* coins that follow the padding in an argument list of the startup
\* specification
MaxTail == 2
\* points in one answer to a history request, in the specification of one
\* CoinData on its own
MaxPoints == 3
\* width and height of a viewport, in cells, in the layout specification
MaxSide == 5
\* panes asked of the layout, in the layout specification
MaxCount == 6

Min(a, b) == IF a < b THEN a ELSE b
Max(a, b) == IF a > b THEN a ELSE b
Last(q) == q[Len(q)]

(***************************************************************************)
(* Characters and strings.                                                 *)
(***************************************************************************)
Lower == {"b", "t", "c", "e", "h", "u", "s", "d"}
Upper == {"B", "T", "C", "E", "H", "U", "S", "D"}
Digits == {"1"}
Whitespace == {" "}

\* char::to_uppercase on the model's alphabet
char_to_uppercase(ch) ==
  CASE ch = "b" -> "B" [] ch = "t" -> "T" [] ch = "c" -> "C"
    [] ch = "e" -> "E" [] ch = "h" -> "H" [] ch = "u" -> "U"
    [] ch = "s" -> "S" [] ch = "d" -> "D" [] OTHER -> ch

\* char::is_alphanumeric
is_alphanumeric(ch) == ch \in Lower \cup Upper \cup Digits

RECURSIVE trim_start(_)
trim_start(s) ==
  IF s # <<>> /\ Head(s) \in Whitespace THEN trim_start(Tail(s)) ELSE s

RECURSIVE trim_end(_)
trim_end(s) ==
  IF s # <<>> /\ s[Len(s)] \in Whitespace
  THEN trim_end(SubSeq(s, 1, Len(s) - 1))
  ELSE s

\* str::trim
trim(s) == trim_end(trim_start(s))

\* str::to_uppercase
to_uppercase(s) == [i \in 1..Len(s) |-> char_to_uppercase(s[i])]

USDT == <<"U", "S", "D", "T">>

IsPrefix(p, s) == Len(p) <= Len(s) /\ SubSeq(s, 1, Len(p)) = p

\* str::replace(from, to): every non-overlapping match, left to right
RECURSIVE replace(_, _, _)
replace(s, from, to) ==
  IF s = <<>> THEN <<>>
  ELSE IF IsPrefix(from, s)
       THEN to \o replace(SubSeq(s, Len(from) + 1, Len(s)), from, to)
       ELSE <<Head(s)>> \o replace(Tail(s), from, to)

(***************************************************************************)
(* main: the symbol list (main.rs:39-52).                                  *)
(***************************************************************************)
\* main.rs:41
Trimmed(coin) == to_uppercase(trim(coin))

\* main.rs:42  trimmed.chars().all(|ch| ch.is_alphanumeric())
AcceptedCoin(coin) == \A i \in 1..Len(Trimmed(coin)) : is_alphanumeric(Trimmed(coin)[i])

\* main.rs:40  args.coins.iter().take(MAX_COINS)
Taken(args) == SubSeq(args, 1, Min(Len(args), MAX_COINS))

\* main.rs:39-47, the loop from its k-th element on
RECURSIVE ParseFrom(_, _)
ParseFrom(taken, k) ==
  IF k > Len(taken) THEN <<>>
  ELSE IF AcceptedCoin(taken[k])
       THEN <<Trimmed(taken[k]) \o USDT>> \o ParseFrom(taken, k + 1)
       ELSE ParseFrom(taken, k + 1)

ParseSymbols(args) == ParseFrom(Taken(args), 1)

(***************************************************************************)
(* CoinData (app.rs:10-103).  A history entry is <<timestamp_ms, price>>.  *)
(***************************************************************************)
\* app.rs:23-35
CoinData_new(symbol) ==
  [symbol |-> symbol,
   display_name |-> replace(symbol, USDT, <<"/">> \o USDT),
   price |-> 0, change_24h |-> 0, high_24h |-> 0, low_24h |-> 0,
   volume_24h |-> 0,
   price_history |-> <<>>]

\* faulty variant of app.rs:45: `>` for `>=`, the buffer grows to 61
push_history_off_by_one(history, now_ms, price) ==
  Append(IF Len(history) > MAX_HISTORY THEN Tail(history) ELSE history,
         <<now_ms, price>>)

\* app.rs:45-48
push_history(history, now_ms, price) ==
  Append(IF Len(history) >= MAX_HISTORY THEN Tail(history) ELSE history,
         <<now_ms, price>>)

\* faulty variant of app.rs:37-49: the label is computed again on update
update_relabel(coin, ticker, now_ms) ==
  [coin EXCEPT !.display_name = replace(@, USDT, <<"/">> \o USDT),
               !.price = ticker.last_price,
               !.change_24h = ticker.price_change_percent,
               !.high_24h = ticker.high_price,
               !.low_24h = ticker.low_price,
               !.volume_24h = ticker.volume,
               !.price_history = push_history(@, now_ms, ticker.last_price)]

\* app.rs:37-49
update(coin, ticker, now_ms) ==
  [coin EXCEPT !.price = ticker.last_price,
               !.change_24h = ticker.price_change_percent,
               !.high_24h = ticker.high_price,
               !.low_24h = ticker.low_price,
               !.volume_24h = ticker.volume,
               !.price_history = push_history(@, now_ms, ticker.last_price)]

\* faulty variant of app.rs:95: the old entries are not cleared
load_history_no_clear(coin, data) ==
  [coin EXCEPT !.price_history = @ \o data,
               !.price = IF coin.price_history \o data # <<>>
                         THEN Last(coin.price_history \o data)[2]
                         ELSE @]

\* faulty variant of app.rs:99-101: the price is not set from the points
load_history_keep_price(coin, data) ==
  [coin EXCEPT !.price_history = data]

\* app.rs:94-102
load_history(coin, data) ==
  [coin EXCEPT !.price_history = data,
               !.price = IF data # <<>> THEN data[Len(data)][2] ELSE @]

\* faulty variant of app.rs:56: the timestamp as the x value
history_data_by_timestamp(coin) ==
  [j \in 1..Len(coin.price_history) |->
     <<coin.price_history[j][1], coin.price_history[j][2]>>]

\* app.rs:51-58: (index, price), the index being the rank in the buffer
history_data(coin) ==
  [j \in 1..Len(coin.price_history) |-> <<j - 1, coin.price_history[j][2]>>]

\* app.rs:65: fold(f64::INFINITY, f64::min); acc is the accumulator, seeded
\* with the first price that min(INFINITY, p) = p leaves
RECURSIVE fold_min(_, _)
fold_min(prices, acc) ==
  IF prices = <<>> THEN acc ELSE fold_min(Tail(prices), Min(acc, Head(prices)))

\* app.rs:66: fold(f64::NEG_INFINITY, f64::max)
RECURSIVE fold_max(_, _)
fold_max(prices, acc) ==
  IF prices = <<>> THEN acc ELSE fold_max(Tail(prices), Max(acc, Head(prices)))

\* app.rs:67: padding = (max - min) * 0.1; bounds are returned in units of
\* 1 / PADDING_DEN so that the tenth is exact
PADDING_DEN == 10
\* app.rs:62: the default range
DEFAULT_MAX == 100

\* faulty variant of app.rs:68: no padding
price_bounds_no_padding(coin) ==
  IF coin.price_history = <<>> THEN <<0, DEFAULT_MAX * PADDING_DEN>>
  ELSE LET prices == [j \in 1..Len(coin.price_history) |-> coin.price_history[j][2]]
       IN <<PADDING_DEN * fold_min(Tail(prices), Head(prices)),
            PADDING_DEN * fold_max(Tail(prices), Head(prices))>>

\* app.rs:60-69
price_bounds(coin) ==
  IF coin.price_history = <<>> THEN <<0, DEFAULT_MAX * PADDING_DEN>>
  ELSE LET prices == [j \in 1..Len(coin.price_history) |-> coin.price_history[j][2]]
           min == fold_min(Tail(prices), Head(prices))
           max == fold_max(Tail(prices), Head(prices))
           padding == max - min
       IN <<PADDING_DEN * min - padding, PADDING_DEN * max + padding>>

(***************************************************************************)
(* BinanceClient (api.rs).  A request's outcome is the server's to choose: *)
(* a result carries the symbol it was requested for (the url of            *)
(* api.rs:48 and api.rs:70-73, echoed in TickerData.symbol and in the      *)
(* error text of api.rs:51 and api.rs:76).                                 *)
(***************************************************************************)
NoTicker ==
  [last_price |-> 0, price_change_percent |-> 0, high_price |-> 0,
   low_price |-> 0, volume |-> 0]

\* api.rs:8-21: the snapshots a server may answer with in round r
Ticker(base, r) ==
  [last_price |-> base + r, price_change_percent |-> r - 2,
   high_price |-> base + r + 10, low_price |-> base - 10,
   volume |-> 10 * base]

TickerBases == {100, 200}
OneTickerBase == {1000}

\* api.rs:81-91: n klines as (open_time, close_price), oldest first
Klines(n) == [i \in 1..n |-> <<i, 500 + ((7 * i) % 11)>>]

\* how many rows the server may send: api.rs:78-93 keeps every row it gets,
\* the limit is only a parameter of the url (api.rs:70-73)
KlineLens(limit) == {0, 1, limit, limit + 1}

\* the causes of api.rs:49-53 and api.rs:74-78
ErrorKinds == {"ApiError"}

OkResult(symbol, val) == [ok |-> TRUE, symbol |-> symbol, val |-> val, err |-> ""]
ErrResult(symbol, kind, val) == [ok |-> FALSE, symbol |-> symbol, val |-> val, err |-> kind]

\* api.rs:47-55
TickerOutcomes(symbol, bases, kinds, r) ==
  {OkResult(symbol, Ticker(b, r)) : b \in bases}
    \cup {ErrResult(symbol, k, NoTicker) : k \in kinds}

\* api.rs:69-94
KlineOutcomes(symbol, limit) ==
  {OkResult(symbol, Klines(n)) : n \in KlineLens(limit)}
    \cup {ErrResult(symbol, k, <<>>) : k \in ErrorKinds}

\* the entry of the completions cs that answers request i
ResultOf(cs, i) == (CHOOSE k \in 1..Len(cs) : cs[k].idx = i)

\* faulty variant of join_all: the outputs in completion order
join_all_completion_order(n, cs) == [k \in 1..n |-> cs[k].res]

\* futures::future::join_all (api.rs:58, api.rs:66): the outputs in the
\* order of the futures passed in, whatever order they completed in
join_all(n, cs) == [i \in 1..n |-> cs[ResultOf(cs, i)].res]

(***************************************************************************)
(* App (app.rs:105-186).                                                   *)
(***************************************************************************)
NoCause == [kind |-> "", symbol |-> <<>>]
\* a status message: its fixed text, the coin it names and the error shown
Plain(text) == [text |-> text, symbol |-> <<>>, cause |-> NoCause]
ErrorMsg(text, symbol, res) ==
  [text |-> text, symbol |-> symbol,
   cause |-> [kind |-> res.err, symbol |-> res.symbol]]

None == [some |-> FALSE, at |-> 0]
Some(t) == [some |-> TRUE, at |-> t]

\* app.rs:115
NewCoins(syms) == [i \in 1..Len(syms) |-> CoinData_new(syms[i])]

\* app.rs:127, app.rs:142
SymbolsOf(cs) == [i \in 1..Len(cs) |-> cs[i].symbol]

\* faulty variant of app.rs:131-137: the first Err ends the loop
load_historical_coins_abort(cs, rs) ==
  [i \in 1..Len(cs) |->
     IF i <= Len(rs) /\ \A j \in 1..i : rs[j].ok
     THEN load_history(cs[i], rs[i].val)
     ELSE cs[i]]

\* app.rs:130-138: the zip stops at the shorter of the two
load_historical_coins(cs, rs) ==
  [i \in 1..Len(cs) |->
     IF i <= Len(rs) /\ rs[i].ok
     THEN load_history(cs[i], rs[i].val)
     ELSE cs[i]]

\* the status messages written by the loop of app.rs:130-138 with text
\* "Error loading history for", or of app.rs:145-152 with "Error fetching",
\* in the order written
RECURSIVE ErrorWrites(_, _, _, _)
ErrorWrites(text, cs, rs, i) ==
  IF i > Min(Len(cs), Len(rs)) THEN <<>>
  ELSE (IF rs[i].ok THEN <<>> ELSE <<ErrorMsg(text, cs[i].symbol, rs[i])>>)
         \o ErrorWrites(text, cs, rs, i + 1)

\* app.rs:126-138: every write of status_message, in order
load_historical_writes(cs, rs) ==
  <<Plain("Loading history...")>>
    \o ErrorWrites("Error loading history for", cs, rs, 1)

\* faulty variant of app.rs:146-151: an Err applies a default snapshot
fetch_prices_coins_default_on_err(cs, rs, now_ms) ==
  [i \in 1..Len(cs) |->
     IF i <= Len(rs) THEN update(cs[i], rs[i].val, now_ms) ELSE cs[i]]

\* app.rs:145-152
fetch_prices_coins(cs, rs, now_ms) ==
  [i \in 1..Len(cs) |->
     IF i <= Len(rs) /\ rs[i].ok
     THEN update(cs[i], rs[i].val, now_ms)
     ELSE cs[i]]

\* faulty variant of app.rs:154: "Updated" only after a round without error
fetch_prices_writes_keep_error(cs, rs) ==
  ErrorWrites("Error fetching", cs, rs, 1)
    \o (IF \A i \in 1..Len(rs) : rs[i].ok THEN <<Plain("Updated")>> ELSE <<>>)

\* app.rs:145-154: every write of status_message, in order
fetch_prices_writes(cs, rs) ==
  ErrorWrites("Error fetching", cs, rs, 1) \o <<Plain("Updated")>>

\* faulty variant of app.rs:153: only a round with a success counts
fetch_prices_last_update_on_success(old, rs, now) ==
  IF \E i \in 1..Len(rs) : rs[i].ok THEN Some(now) ELSE old

\* app.rs:153
fetch_prices_last_update(old, rs, now) == Some(now)

\* faulty variant of app.rs:158: no guard
scroll_up_unguarded(offset) == offset - 1

\* app.rs:157-161
scroll_up(offset) == IF offset > 0 THEN offset - 1 ELSE offset

\* usize::saturating_sub
saturating_sub(a, b) == IF a >= b THEN a - b ELSE 0

\* faulty variant of app.rs:164: `<=` for `<`
scroll_down_inclusive(offset, len) ==
  IF offset <= saturating_sub(len, SCROLL_WINDOW) THEN offset + 1 ELSE offset

\* app.rs:163-167
scroll_down(offset, len) ==
  IF offset < saturating_sub(len, SCROLL_WINDOW) THEN offset + 1 ELSE offset

(***************************************************************************)
(* render (ui.rs:31-52).  App::visible_coins, App::total_pages and         *)
(* App::page_index, which render and render_status_bar read, are not in    *)
(* app.rs: they follow the pagination rule of the specification.           *)
(***************************************************************************)
VISIBLE_PER_PAGE == 4

CeilDiv(a, b) == (a + b - 1) \div b

\* symbols[page*visiblePerPage .. page*visiblePerPage+visiblePerPage)
visible_coins(cs, page) ==
  SubSeq(cs, page * VISIBLE_PER_PAGE + 1,
         Min(Len(cs), page * VISIBLE_PER_PAGE + VISIBLE_PER_PAGE))

total_pages(cs) == CeilDiv(Len(cs), VISIBLE_PER_PAGE)

\* ui.rs:54-75: how many rectangles calculate_grid_layout returns
calculate_grid_layout_len(count) == IF count <= 3 THEN count ELSE 4

\* ratatui's Rect
Rect(x, y, width, height) == [x |-> x, y |-> y, width |-> width, height |-> height]

\* Layout::horizontal([Ratio(1, 2), Ratio(1, 2)]).split(area) (ui.rs:58,
\* ui.rs:64, ui.rs:70-71): two adjacent columns that fill the area; the
\* boundary is the rounded middle, so an odd width gives the left column the
\* extra cell
split_horizontal(area) ==
  LET left == (area.width + 1) \div 2
  IN <<Rect(area.x, area.y, left, area.height),
       Rect(area.x + left, area.y, area.width - left, area.height)>>

\* Layout::vertical([Ratio(1, 2), Ratio(1, 2)]).split(area) (ui.rs:63,
\* ui.rs:69): two adjacent rows that fill the area
split_vertical(area) ==
  LET top == (area.height + 1) \div 2
  IN <<Rect(area.x, area.y, area.width, top),
       Rect(area.x, area.y + top, area.width, area.height - top)>>

\* faulty variant of ui.rs:64: the bottom columns cut from the top row
calculate_grid_layout_top_twice(count, area) ==
  LET rows == split_vertical(area)
      top == split_horizontal(rows[1])
      bot == split_horizontal(rows[2])
  IN CASE count = 0 -> <<>>
       [] count = 1 -> <<area>>
       [] count = 2 -> split_horizontal(area)
       [] count = 3 -> <<rows[1], top[1], top[2]>>
       [] OTHER -> <<top[1], top[2], bot[1], bot[2]>>

\* ui.rs:54-75
calculate_grid_layout(count, area) ==
  LET rows == split_vertical(area)
      top == split_horizontal(rows[1])
      bot == split_horizontal(rows[2])
  IN CASE count = 0 -> <<>>
       [] count = 1 -> <<area>>
       [] count = 2 -> split_horizontal(area)
       [] count = 3 -> <<rows[1], bot[1], bot[2]>>
       [] OTHER -> <<top[1], top[2], bot[1], bot[2]>>

\* ui.rs:39-51 and ui.rs:161-186: the panes of a frame (one per visible coin
\* that gets a rectangle, ui.rs:42), the page indicator and the status
render(cs, page, offset, status) ==
  LET visible == visible_coins(cs, page)
      shown == Min(Len(visible), calculate_grid_layout_len(Len(visible)))
  IN [panes |-> [i \in 1..shown |-> visible[i].display_name],
      page |-> page,
      indicator |-> IF total_pages(cs) > 1 THEN <<page + 1, total_pages(cs)>> ELSE <<>>,
      offset |-> offset,
      status |-> status]

NoFrame ==
  [panes |-> <<>>, page |-> 0, indicator |-> <<>>, offset |-> 0, status |-> Plain("")]

(***************************************************************************)
(* The formatters (ui.rs:197-237).  The f64 they take is a decimal number  *)
(* here, a sign with whole units and thousandths, so that every rounding   *)
(* of the code is computed: f64::round rounds halves away from zero, the   *)
(* precision of format! rounds halves to even.  A string is the sequence   *)
(* of its characters.                                                      *)
(***************************************************************************)
F64(neg, units, mills) == [neg |-> neg, units |-> units, mills |-> mills]

\* v >= t for a threshold t > 0 of whole units (ui.rs:198-202, ui.rs:210,
\* ui.rs:230-232)
ge(v, t) == ~v.neg /\ v.units >= t

DigitChars == <<"0", "1", "2", "3", "4", "5", "6", "7", "8", "9">>
digit(d) == DigitChars[d + 1]

RECURSIVE Pow10(_)
Pow10(k) == IF k = 0 THEN 1 ELSE 10 * Pow10(k - 1)

\* i64::to_string (ui.rs:215) and the integer part of a formatted float
RECURSIVE to_string(_)
to_string(n) ==
  IF n < 10 THEN <<digit(n)>> ELSE Append(to_string(n \div 10), digit(n % 10))

\* the sign format! writes
sign(v) == IF v.neg THEN <<"-">> ELSE <<>>

\* round half to even: q when the rest is below the half, q + 1 above it
half_even(q, rest, half) ==
  IF rest > half \/ (rest = half /\ q % 2 = 1) THEN q + 1 ELSE q

\* format!("{:.2}", v) (ui.rs:225, ui.rs:235)
fmt_precision_2(v) ==
  LET cents == half_even(v.mills \div 10, v.mills % 10, 5)
      whole == IF cents = 100 THEN v.units + 1 ELSE v.units
  IN sign(v) \o to_string(whole) \o <<".">>
       \o <<digit((cents % 100) \div 10), digit(cents % 10)>>

\* format!("{:.0}", v) (ui.rs:205)
fmt_precision_0(v) ==
  sign(v) \o to_string(half_even(v.units, v.mills, 500))

\* format!("{:.1}", v / 10^k) for k >= 2 (ui.rs:199-203, ui.rs:231-233):
\* the tenths of the quotient, the rest being the units below a tenth and
\* the thousandths
fmt_precision_1_div(v, k) ==
  LET P == Pow10(k - 1)
      q == v.units \div P
      rest == v.units % P
      half == P \div 2
      tenths == IF rest = half /\ v.mills > 0 THEN q + 1
                ELSE half_even(q, rest, half)
  IN sign(v) \o to_string(tenths \div 10) \o <<".">> \o <<digit(tenths % 10)>>

\* faulty variant of ui.rs:198-202: `>` for `>=`
format_volume_exclusive(vol) ==
  IF ge(vol, 1000000000) /\ vol # F64(FALSE, 1000000000, 0)
  THEN Append(fmt_precision_1_div(vol, 9), "B")
  ELSE IF ge(vol, 1000000) /\ vol # F64(FALSE, 1000000, 0)
  THEN Append(fmt_precision_1_div(vol, 6), "M")
  ELSE IF ge(vol, 1000) /\ vol # F64(FALSE, 1000, 0)
  THEN Append(fmt_precision_1_div(vol, 3), "K")
  ELSE fmt_precision_0(vol)

\* ui.rs:197-207
format_volume(vol) ==
  IF ge(vol, 1000000000) THEN Append(fmt_precision_1_div(vol, 9), "B")
  ELSE IF ge(vol, 1000000) THEN Append(fmt_precision_1_div(vol, 6), "M")
  ELSE IF ge(vol, 1000) THEN Append(fmt_precision_1_div(vol, 3), "K")
  ELSE fmt_precision_0(vol)

\* ui.rs:212: (price * 100.0).round() / 100.0 for price >= 0, as whole
\* units and cents
round_to_cents(price) ==
  LET c == (price.mills \div 10) + (IF price.mills % 10 >= 5 THEN 1 ELSE 0)
  IN [units |-> price.units + (c \div 100), cents |-> c % 100]

\* f64::clamp (ui.rs:214)
clamp(x, lo, hi) == IF x < lo THEN lo ELSE IF x > hi THEN hi ELSE x

\* faulty variant of ui.rs:218: the groups counted from the left
group_digits_from_left(str) ==
  LET piece(i) == IF i > 1 /\ (i - 1) % 3 = 0 THEN <<",", str[i]>> ELSE <<str[i]>>
      build[i \in 0..Len(str)] == IF i = 0 THEN <<>> ELSE build[i - 1] \o piece(i)
  IN build[Len(str)]

\* ui.rs:216-222: a comma before every digit that has a multiple of three
\* digits from itself on; i of the code is i - 1 here
group_digits(str) ==
  LET piece(i) ==
        IF i - 1 > 0 /\ (Len(str) - (i - 1)) % 3 = 0 THEN <<",", str[i]>> ELSE <<str[i]>>
      build[i \in 0..Len(str)] == IF i = 0 THEN <<>> ELSE build[i - 1] \o piece(i)
  IN build[Len(str)]

\* ui.rs:209-227
format_price(price) ==
  IF ge(price, 1000)
  THEN LET rounded == round_to_cents(price)
           whole == rounded.units
           frac == clamp(rounded.cents, 0, 99)
       IN <<"$">> \o group_digits(to_string(whole)) \o <<".">>
            \o <<digit(frac \div 10), digit(frac % 10)>>
  ELSE <<"$">> \o fmt_precision_2(price)

\* faulty variant of ui.rs:230-232: `>` for `>=`
format_price_short_exclusive(price) ==
  IF ge(price, 1000000) /\ price # F64(FALSE, 1000000, 0)
  THEN <<"$">> \o Append(fmt_precision_1_div(price, 6), "M")
  ELSE IF ge(price, 1000) /\ price # F64(FALSE, 1000, 0)
  THEN <<"$">> \o Append(fmt_precision_1_div(price, 3), "k")
  ELSE <<"$">> \o fmt_precision_2(price)

\* ui.rs:229-237
format_price_short(price) ==
  IF ge(price, 1000000) THEN <<"$">> \o Append(fmt_precision_1_div(price, 6), "M")
  ELSE IF ge(price, 1000) THEN <<"$">> \o Append(fmt_precision_1_div(price, 3), "k")
  ELSE <<"$">> \o fmt_precision_2(price)

(***************************************************************************)
(* The inputs.                                                             *)
(***************************************************************************)
Btc == <<"b", "t", "c">>
EthSpaced == <<" ", "e", "t", "h", " ">>
Dashed == <<"b", "-", "c">>
Empty == <<>>
Tokens == {Btc, EthSpaced, Dashed, Empty}

\* k rejected coins
Pad(k) == [i \in 1..k |-> Dashed]

RECURSIVE SeqsUpTo(_, _)
SeqsUpTo(S, n) ==
  IF n = 0 THEN {<<>>}
  ELSE LET shorter == SeqsUpTo(S, n - 1)
       IN shorter \cup {Append(q, x) : q \in {t \in shorter : Len(t) = n - 1}, x \in S}

\* --coins for the startup specification: short lists, and lists that reach
\* past the first MAX_COINS entries
StartupArgs ==
  {Pad(k) \o tail : k \in {0, MAX_COINS - 1, MAX_COINS}, tail \in SeqsUpTo(Tokens, MaxTail)}

\* --coins for the run of the event loop
RunArgs == {<<Dashed>>, <<Btc>>, <<Btc, Dashed, EthSpaced>>}

LowerSeq == <<"b", "t", "c", "e", "h", "u", "s", "d">>
CoinName(i) == <<LowerSeq[((i - 1) \div 8) + 1], LowerSeq[((i - 1) % 8) + 1]>>
\* --coins for the navigation specification: n accepted coins
NavArgs(n) == [i \in 1..n |-> CoinName(i)]

(***************************************************************************)
(* State.                                                                  *)
(***************************************************************************)
VARIABLES
  pc,             \* where main / run stands
  args,           \* main.rs:29 args.coins
  parse_i,        \* main.rs:40 the element the loop is at
  symbols,        \* main.rs:39
  coins,          \* app.rs:106
  last_update,    \* app.rs:107
  running,        \* app.rs:108
  scroll_offset,  \* app.rs:109
  status_message, \* app.rs:110
  page_index,     \* ui.rs:164 app.page_index
  clock,          \* wall clock: advances while a ticker round is awaited
  req,            \* api.rs:58, api.rs:66: the symbols requests were sent for
  completed,      \* the requests that completed, in completion order
  results,        \* app.rs:128, app.rs:143: what the last join returned
  writes,         \* history variable: what the last round wrote to
                  \* status_message, in order
  ev,             \* main.rs:89 the event being handled
  frame,          \* main.rs:87 the last frame drawn
  pre,            \* history variable: coins when the last round started
  prev_offset,    \* history variable: scroll_offset when ev was received
  appended,       \* history variable: per coin, the prices update() pushed
  call,           \* the function last applied on its own, and its argument
  ret,            \* what that call returned
  started         \* history variable: the rounds started so far, of either
                  \* kind, and the Tick and 'r' events received

vars ==
  <<pc, args, parse_i, symbols, coins, last_update, running, scroll_offset,
    status_message, page_index, clock, req, completed, results, writes, ev,
    frame, pre, prev_offset, appended, call, ret, started>>

mainVars == <<args, parse_i, symbols>>
appVars == <<coins, last_update, running, scroll_offset, status_message, page_index>>
roundVars == <<req, completed, results, writes, pre>>
callVars == <<call, ret>>

\* nothing has run yet
NoneStarted == [klines |-> 0, tickers |-> 0, refreshes |-> 0]

\* no function has been applied on its own
NoCall == [fn |-> "", arg |-> <<>>]

(***************************************************************************)
(* main (main.rs:36-71).                                                   *)
(***************************************************************************)
\* the process as main starts: no App yet
InitWith(argset) ==
  /\ pc = "main"
  /\ args \in argset
  /\ parse_i = 1
  /\ symbols = <<>>
  /\ coins = <<>>
  /\ last_update = None
  /\ running = FALSE
  /\ scroll_offset = 0
  /\ status_message = Plain("")
  /\ page_index = 0
  /\ clock = 0
  /\ req = <<>>
  /\ completed = <<>>
  /\ results = <<>>
  /\ writes = <<>>
  /\ ev = "none"
  /\ frame = NoFrame
  /\ pre = <<>>
  /\ prev_offset = 0
  /\ appended = <<>>
  /\ call = NoCall
  /\ ret = <<>>
  /\ started = NoneStarted

Init == InitWith(RunArgs)

\* main.rs:40-47: one iteration of the loop
ParseCoin ==
  /\ pc = "main"
  /\ parse_i <= Len(Taken(args))
  /\ symbols' = IF AcceptedCoin(Taken(args)[parse_i])
                THEN Append(symbols, Trimmed(Taken(args)[parse_i]) \o USDT)
                ELSE symbols
  /\ parse_i' = parse_i + 1
  /\ UNCHANGED <<callVars, started, pc, args, appVars, clock, roundVars, ev, frame, prev_offset, appended>>

\* main.rs:49-52
ExitNoSymbols ==
  /\ pc = "main"
  /\ parse_i > Len(Taken(args))
  /\ symbols = <<>>
  /\ pc' = "exit"
  /\ UNCHANGED <<callVars, started, mainVars, appVars, clock, roundVars, ev, frame, prev_offset, appended>>

\* main.rs:49, main.rs:61 and App::new (main.rs:78, app.rs:114-123)
EnterRun ==
  /\ pc = "main"
  /\ parse_i > Len(Taken(args))
  /\ symbols # <<>>
  /\ coins' = NewCoins(symbols)
  /\ last_update' = None
  /\ running' = TRUE
  /\ scroll_offset' = 0
  /\ status_message' = Plain("Starting...")
  /\ appended' = [i \in 1..Len(symbols) |-> <<>>]
  /\ ev' = "startup"
  /\ pc' = "load_historical"
  /\ UNCHANGED <<callVars, started, mainVars, page_index, clock, roundVars, frame, prev_offset>>

(***************************************************************************)
(* The two rounds (app.rs:125-155, api.rs:57-67).                          *)
(***************************************************************************)
Pending == {i \in 1..Len(req) : \A k \in 1..Len(completed) : completed[k].idx # i}

\* app.rs:126-128, up to the await
LoadHistoricalStart ==
  /\ pc = "load_historical"
  /\ writes' = <<Plain("Loading history...")>>
  /\ status_message' = Last(writes')
  /\ req' = SymbolsOf(coins)
  /\ completed' = <<>>
  /\ pre' = coins
  /\ pc' = "await_klines"
  /\ started' = [started EXCEPT !.klines = @ + 1]
  /\ UNCHANGED <<callVars, mainVars, coins, last_update, running, scroll_offset, page_index,
                 clock, results, ev, frame, prev_offset, appended>>

\* api.rs:69-94: one get_klines future completes
KlinesComplete ==
  /\ pc = "await_klines"
  /\ \E i \in Pending : \E r \in KlineOutcomes(req[i], MAX_HISTORY) :
       completed' = Append(completed, [idx |-> i, res |-> r])
  /\ UNCHANGED <<callVars, started, pc, mainVars, appVars, clock, req, results, writes, pre, ev,
                 frame, prev_offset, appended>>

\* app.rs:128-138, from the join on
LoadHistoricalJoin ==
  /\ pc = "await_klines"
  /\ Pending = {}
  /\ LET rs == join_all(Len(req), completed)
     IN /\ results' = rs
        /\ coins' = load_historical_coins(coins, rs)
        /\ writes' = load_historical_writes(coins, rs)
        /\ status_message' = Last(writes')
  /\ pc' = "fetch_prices"
  /\ UNCHANGED <<callVars, started, mainVars, last_update, running, scroll_offset, page_index, clock,
                 req, completed, pre, ev, frame, prev_offset, appended>>

\* app.rs:142-143, up to the await
FetchPricesStart ==
  /\ pc = "fetch_prices"
  /\ req' = SymbolsOf(coins)
  /\ completed' = <<>>
  /\ writes' = <<>>
  /\ pre' = coins
  /\ pc' = "await_tickers"
  /\ started' = [started EXCEPT !.tickers = @ + 1]
  /\ UNCHANGED <<callVars, mainVars, appVars, clock, results, ev, frame, prev_offset, appended>>

\* api.rs:47-55: one get_ticker_24h future completes; the snapshot's numbers
\* are the server's, tagged here by the round they answer
TickerComplete(bases, kinds) ==
  /\ pc = "await_tickers"
  /\ \E i \in Pending : \E r \in TickerOutcomes(req[i], bases, kinds, clock + 1) :
       completed' = Append(completed, [idx |-> i, res |-> r])
  /\ UNCHANGED <<callVars, started, pc, mainVars, appVars, clock, req, results, writes, pre, ev,
                 frame, prev_offset, appended>>

\* app.rs:143-154, from the join on, and main.rs:110
FetchPricesJoin ==
  /\ pc = "await_tickers"
  /\ Pending = {}
  /\ clock' = clock + 1
  /\ LET rs == join_all(Len(req), completed)
     IN /\ results' = rs
        /\ coins' = fetch_prices_coins(coins, rs, clock')
        /\ writes' = fetch_prices_writes(coins, rs)
        /\ status_message' = Last(writes')
        /\ last_update' = fetch_prices_last_update(last_update, rs, clock')
        /\ appended' = [i \in 1..Len(coins) |->
                          IF i <= Len(rs) /\ rs[i].ok
                          THEN Append(appended[i], rs[i].val.last_price)
                          ELSE appended[i]]
  /\ pc' = IF running THEN "draw" ELSE "done"
  /\ UNCHANGED <<callVars, started, mainVars, running, scroll_offset, page_index, req, completed, pre,
                 ev, frame, prev_offset>>

(***************************************************************************)
(* The event loop (main.rs:86-113).                                        *)
(***************************************************************************)
\* main.rs:87, and the wait of main.rs:89
Draw ==
  /\ pc = "draw"
  /\ frame' = render(coins, page_index, scroll_offset, status_message)
  /\ ev' = "none"
  /\ prev_offset' = scroll_offset
  /\ pc' = "events_next"
  /\ UNCHANGED <<callVars, started, mainVars, appVars, clock, roundVars, appended>>

\* faulty variant of main.rs:89-101: the event is handled while the round
\* of fetch_prices is still awaited
OnRefresh_during_round(event, text, maxClock) ==
  /\ pc \in {"events_next", "await_tickers"}
  /\ clock < maxClock
  /\ ev' = event
  /\ status_message' = Plain(text)
  /\ frame' = render(coins, page_index, scroll_offset, Plain(text))
  /\ pc' = "fetch_prices"
  /\ started' = [started EXCEPT !.refreshes = @ + 1]
  /\ UNCHANGED <<callVars, mainVars, coins, last_update, running, scroll_offset, page_index,
                 clock, roundVars, prev_offset, appended>>

\* main.rs:90-93 (text "Fetching...") and main.rs:97-100 ("Refreshing..."),
\* up to the call of fetch_prices
OnRefresh(event, text, maxClock) ==
  /\ pc = "events_next"
  /\ clock < maxClock
  /\ ev' = event
  /\ status_message' = Plain(text)
  /\ frame' = render(coins, page_index, scroll_offset, Plain(text))
  /\ pc' = "fetch_prices"
  /\ started' = [started EXCEPT !.refreshes = @ + 1]
  /\ UNCHANGED <<callVars, mainVars, coins, last_update, running, scroll_offset, page_index,
                 clock, roundVars, prev_offset, appended>>

\* faulty variant of main.rs:90-93: a Tick redraws and fetches nothing
OnTick_redraw_only(maxClock) ==
  /\ pc = "events_next"
  /\ clock < maxClock
  /\ ev' = "Tick"
  /\ status_message' = Plain("Fetching...")
  /\ frame' = render(coins, page_index, scroll_offset, Plain("Fetching..."))
  /\ pc' = "draw"
  /\ started' = [started EXCEPT !.refreshes = @ + 1]
  /\ UNCHANGED <<callVars, mainVars, coins, last_update, running, scroll_offset, page_index,
                 clock, roundVars, prev_offset, appended>>

OnTick(maxClock) == OnRefresh("Tick", "Fetching...", maxClock)
OnKeyR(maxClock) == OnRefresh("KeyR", "Refreshing...", maxClock)

\* faulty variant of main.rs:110-112: the loop goes on after quit
OnQuit_no_break ==
  /\ pc = "events_next"
  /\ \E e \in {"KeyQ", "KeyEsc", "Quit"} : ev' = e
  /\ running' = FALSE
  /\ pc' = "draw"
  /\ UNCHANGED <<callVars, started, mainVars, coins, last_update, scroll_offset, status_message,
                 page_index, clock, roundVars, frame, prev_offset, appended>>

\* main.rs:96 and main.rs:106 with app.rs:169-171, then main.rs:110-112
OnQuit ==
  /\ pc = "events_next"
  /\ \E e \in {"KeyQ", "KeyEsc", "Quit"} : ev' = e
  /\ running' = FALSE
  /\ pc' = "done"
  /\ UNCHANGED <<callVars, started, mainVars, coins, last_update, scroll_offset, status_message,
                 page_index, clock, roundVars, frame, prev_offset, appended>>

\* main.rs:102 with app.rs:157-161
OnKeyUp ==
  /\ pc = "events_next"
  /\ \E e \in {"KeyUp", "KeyK"} : ev' = e
  /\ scroll_offset' = scroll_up(scroll_offset)
  /\ pc' = IF running THEN "draw" ELSE "done"
  /\ UNCHANGED <<callVars, started, mainVars, coins, last_update, running, status_message, page_index,
                 clock, roundVars, frame, prev_offset, appended>>

\* main.rs:103 with app.rs:163-167
OnKeyDown ==
  /\ pc = "events_next"
  /\ \E e \in {"KeyDown", "KeyJ"} : ev' = e
  /\ scroll_offset' = scroll_down(scroll_offset, Len(coins))
  /\ pc' = IF running THEN "draw" ELSE "done"
  /\ UNCHANGED <<callVars, started, mainVars, coins, last_update, running, status_message, page_index,
                 clock, roundVars, frame, prev_offset, appended>>

\* main.rs:104 and main.rs:107
OnIgnored ==
  /\ pc = "events_next"
  /\ \E e \in {"KeyOther", "Resize"} : ev' = e
  /\ pc' = IF running THEN "draw" ELSE "done"
  /\ UNCHANGED <<callVars, started, mainVars, appVars, clock, roundVars, frame, prev_offset, appended>>

Next ==
  \/ ParseCoin
  \/ ExitNoSymbols
  \/ EnterRun
  \/ LoadHistoricalStart
  \/ KlinesComplete
  \/ LoadHistoricalJoin
  \/ FetchPricesStart
  \/ TickerComplete(TickerBases, ErrorKinds)
  \/ FetchPricesJoin
  \/ Draw
  \/ OnTick(1 + MaxRounds)
  \/ OnKeyR(1 + MaxRounds)
  \/ OnQuit
  \/ OnKeyUp
  \/ OnKeyDown
  \/ OnIgnored

Spec == Init /\ [][Next]_vars

(***************************************************************************)
(* Startup alone: main over argument lists that reach past MAX_COINS.      *)
(***************************************************************************)
InitMain == InitWith(StartupArgs)

NextMain ==
  \/ ParseCoin
  \/ ExitNoSymbols
  \/ EnterRun

SpecMain == InitMain /\ [][NextMain]_vars

(***************************************************************************)
(* The event loop as entered after a startup in which every request of     *)
(* both rounds failed: App is as App::new left it, but for status_message  *)
(* and last_update.                                                        *)
(***************************************************************************)
FailedResults(syms, val) ==
  [i \in 1..Len(syms) |-> ErrResult(syms[i], "ApiError", val)]

AfterFailedStartup(argv) ==
  LET syms == ParseSymbols(argv) IN
  /\ pc = "draw"
  /\ args = argv
  /\ parse_i = Len(Taken(argv)) + 1
  /\ symbols = syms
  /\ coins = NewCoins(syms)
  /\ last_update = Some(1)
  /\ running = TRUE
  /\ scroll_offset = 0
  /\ status_message = Plain("Updated")
  /\ page_index = 0
  /\ clock = 1
  /\ req = syms
  /\ completed = [i \in 1..Len(syms) |->
                    [idx |-> i, res |-> ErrResult(syms[i], "ApiError", NoTicker)]]
  /\ results = FailedResults(syms, NoTicker)
  /\ writes = fetch_prices_writes(NewCoins(syms), FailedResults(syms, NoTicker))
  /\ ev = "startup"
  /\ frame = NoFrame
  /\ pre = NewCoins(syms)
  /\ prev_offset = 0
  /\ appended = [i \in 1..Len(syms) |-> <<>>]
  /\ call = NoCall
  /\ ret = <<>>
  /\ started = [klines |-> 1, tickers |-> 1, refreshes |-> 0]

\* navigation: every symbol count main can hand to App::new
InitNav == \E n \in 1..MAX_COINS : AfterFailedStartup(NavArgs(n))

NextNav ==
  \/ Draw
  \/ OnKeyUp
  \/ OnKeyDown

SpecNav == InitNav /\ [][NextNav]_vars

\* one price series: a single coin whose history the failed startup left
\* empty, then refresh rounds that all succeed, with pairwise distinct prices
InitSeries == AfterFailedStartup(<<Btc>>)

NextSeries ==
  \/ Draw
  \/ OnTick(MaxAppends)
  \/ FetchPricesStart
  \/ TickerComplete(OneTickerBase, {})
  \/ FetchPricesJoin

SpecSeries == InitSeries /\ [][NextSeries]_vars

(***************************************************************************)
(* One CoinData on its own (app.rs:22-103): created by CoinData::new, then *)
(* any sequence of load_history, update, history_data and price_bounds, as *)
(* the tests of app.rs:192-236 call them.                                  *)
(***************************************************************************)
\* the points a history request may carry: those of app.rs:204
Points == {<<1000, 100>>, <<2000, 110>>, <<3000, 105>>}

PointSeqs == SeqsUpTo(Points, MaxPoints)

CoinTickers == {Ticker(b, 0) : b \in OneTickerBase}

InitCoin ==
  /\ pc = "coin"
  /\ args = <<Btc>>
  /\ parse_i = 2
  /\ symbols = ParseSymbols(<<Btc>>)
  /\ coins = NewCoins(ParseSymbols(<<Btc>>))
  /\ last_update = None
  /\ running = TRUE
  /\ scroll_offset = 0
  /\ status_message = Plain("Starting...")
  /\ page_index = 0
  /\ clock = 2000
  /\ req = <<>>
  /\ completed = <<>>
  /\ results = <<>>
  /\ writes = <<>>
  /\ ev = "none"
  /\ frame = NoFrame
  /\ pre = NewCoins(ParseSymbols(<<Btc>>))
  /\ prev_offset = 0
  /\ appended = <<<<>>>>
  /\ call = NoCall
  /\ ret = <<>>
  /\ started = NoneStarted

\* app.rs:94-102 on its own; results keeps the points it was given
CoinLoadHistory ==
  /\ pc = "coin"
  /\ \E data \in PointSeqs :
       /\ coins' = <<load_history(coins[1], data)>>
       /\ results' = <<OkResult(coins[1].symbol, data)>>
       /\ call' = [fn |-> "load_history", arg |-> data]
  /\ pre' = coins
  /\ appended' = <<<<>>>>
  /\ ret' = <<>>
  /\ UNCHANGED <<pc, started, mainVars, last_update, running, scroll_offset, status_message,
                 page_index, clock, req, completed, writes, ev, frame, prev_offset>>

\* app.rs:37-49 on its own, at most once between two loads
CoinUpdate ==
  /\ pc = "coin"
  /\ appended[1] = <<>>
  /\ \E t \in CoinTickers :
       /\ coins' = <<update(coins[1], t, clock)>>
       /\ appended' = <<<<t.last_price>>>>
  /\ pre' = coins
  /\ call' = [fn |-> "update", arg |-> <<>>]
  /\ ret' = <<>>
  /\ UNCHANGED <<pc, started, mainVars, last_update, running, scroll_offset, status_message,
                 page_index, clock, req, completed, results, writes, ev, frame,
                 prev_offset>>

\* app.rs:51-58 on its own
CoinHistoryData ==
  /\ pc = "coin"
  /\ call' = [fn |-> "history_data", arg |-> <<>>]
  /\ ret' = history_data(coins[1])
  /\ UNCHANGED <<pc, started, mainVars, appVars, clock, roundVars, ev, frame, prev_offset,
                 appended>>

\* app.rs:60-69 on its own
CoinPriceBounds ==
  /\ pc = "coin"
  /\ call' = [fn |-> "price_bounds", arg |-> <<>>]
  /\ ret' = price_bounds(coins[1])
  /\ UNCHANGED <<pc, started, mainVars, appVars, clock, roundVars, ev, frame, prev_offset,
                 appended>>

NextCoin ==
  \/ CoinLoadHistory
  \/ CoinUpdate
  \/ CoinHistoryData
  \/ CoinPriceBounds

SpecCoin == InitCoin /\ [][NextCoin]_vars

(***************************************************************************)
(* The formatters on their own (ui.rs:197-237), as the tests of            *)
(* ui.rs:243-266 call them: one value, then any of the three.              *)
(***************************************************************************)
\* the program state the functions applied on their own leave alone
Untouched ==
  /\ args = <<>>
  /\ parse_i = 1
  /\ symbols = <<>>
  /\ coins = <<>>
  /\ last_update = None
  /\ running = FALSE
  /\ scroll_offset = 0
  /\ status_message = Plain("")
  /\ page_index = 0
  /\ clock = 0
  /\ req = <<>>
  /\ completed = <<>>
  /\ results = <<>>
  /\ writes = <<>>
  /\ ev = "none"
  /\ frame = NoFrame
  /\ pre = <<>>
  /\ prev_offset = 0
  /\ appended = <<>>
  /\ started = NoneStarted

\* whole units: the values of the tests, the thresholds and their
\* neighbours, and values whose quotient is halfway between two tenths
\* (1250, 1250000)
FormatUnits ==
  {0, 1, 9, 10, 99, 100, 500, 999, 1000, 1001, 1234, 1250, 1500, 9999, 10000,
   42069, 99999, 100000, 999949, 999999, 1000000, 1000001, 1234567, 1250000,
   1500000, 999999999, 1000000000, 1000000001, 1500000000, 2147483646}

\* thousandths: no cents, cents, and thousandths that round down, up, and
\* (125) halfway
FormatMills == {0, 4, 125, 420, 500, 990, 994, 996, 999}

FormatInputs ==
  {F64(FALSE, u, m) : u \in FormatUnits, m \in FormatMills}
    \cup {F64(TRUE, u, m) : u \in {0, 1, 1500, 1000000}, m \in {0, 500}}

InitFormat ==
  /\ pc = "format"
  /\ Untouched
  /\ \E v \in FormatInputs : call = [fn |-> "", arg |-> v]
  /\ ret = <<>>

ApplyFormat(fn, out) ==
  /\ pc = "format"
  /\ call' = [fn |-> fn, arg |-> call.arg]
  /\ ret' = out
  /\ UNCHANGED <<pc, started, mainVars, appVars, clock, roundVars, ev, frame, prev_offset,
                 appended>>

\* ui.rs:197-207 on its own
ApplyFormatVolume == ApplyFormat("format_volume", format_volume(call.arg))
\* ui.rs:209-227 on its own
ApplyFormatPrice == ApplyFormat("format_price", format_price(call.arg))
\* ui.rs:229-237 on its own
ApplyFormatPriceShort == ApplyFormat("format_price_short", format_price_short(call.arg))

NextFormat ==
  \/ ApplyFormatVolume
  \/ ApplyFormatPrice
  \/ ApplyFormatPriceShort

SpecFormat == InitFormat /\ [][NextFormat]_vars

(***************************************************************************)
(* calculate_grid_layout on its own (ui.rs:54-75): a pane count and a      *)
(* viewport, then the call.                                                *)
(***************************************************************************)
\* the viewports: any corner, every width and height up to MaxSide
Viewports ==
  {Rect(x, y, w, h) : x \in {0, 3}, y \in {0, 2}, w \in 0..MaxSide, h \in 0..MaxSide}

InitLayout ==
  /\ pc = "layout"
  /\ Untouched
  /\ \E n \in 0..MaxCount : \E a \in Viewports :
       call = [fn |-> "", arg |-> [count |-> n, area |-> a]]
  /\ ret = <<>>

ApplyGridLayout ==
  /\ pc = "layout"
  /\ call' = [fn |-> "calculate_grid_layout", arg |-> call.arg]
  /\ ret' = calculate_grid_layout(call.arg.count, call.arg.area)
  /\ UNCHANGED <<pc, started, mainVars, appVars, clock, roundVars, ev, frame, prev_offset,
                 appended>>

NextLayout == ApplyGridLayout

SpecLayout == InitLayout /\ [][NextLayout]_vars

(***************************************************************************)
(* Properties.                                                             *)
(***************************************************************************)
Prices(history) == [j \in 1..Len(history) |-> history[j][2]]
LastN(q, k) == SubSeq(q, Len(q) - k + 1, Len(q))
RoundEvents == {"startup", "Tick", "KeyR"}
\* fetch_prices has just returned
AfterFetchPrices == pc = "draw" /\ ev \in RoundEvents
\* load_historical has just returned
AfterLoadHistorical == pc = "fetch_prices" /\ ev = "startup"
Failed(rs) == {i \in 1..Len(rs) : ~rs[i].ok}
Succeeded(rs) == {i \in 1..Len(rs) : rs[i].ok}

\* C1: from an empty history, after n successful updates the history holds
\* exactly min(n, 60) entries, the prices of the most recent min(n, 60)
\* updates, oldest first; an update on a full history drops exactly the
\* oldest entry and keeps the others as they were.
C1_RollingHistory ==
  \A i \in 1..Len(coins) :
    LET n == Len(appended[i])
        k == Min(n, MAX_HISTORY)
        h == coins[i].price_history
    IN /\ Len(h) = k
       /\ Prices(h) = LastN(appended[i], k)
       /\ (AfterFetchPrices /\ ev = "Tick" /\ Len(pre[i].price_history) = MAX_HISTORY)
            => /\ SubSeq(h, 1, Len(h) - 1) = Tail(pre[i].price_history)
               /\ Last(h) = <<clock, coins[i].price>>

\* C1 witness: more updates than the capacity arrived and the last one hit
\* a full history.
C1_Witness ==
  /\ AfterFetchPrices /\ ev = "Tick"
  /\ Len(appended[1]) = MAX_HISTORY + 3
  /\ Len(pre[1].price_history) = MAX_HISTORY
  /\ Len(coins[1].price_history) = MAX_HISTORY
  /\ coins[1].price_history[1] # pre[1].price_history[1]

\* C2: every coin's price history has at most MAX_HISTORY = 60 entries,
\* whatever the history request returned and whatever rounds followed.
C2_HistoryWithinCapacity ==
  \A i \in 1..Len(coins) : Len(coins[i].price_history) <= MAX_HISTORY

\* C3: after a snapshot round in which the fetch succeeded for coin a and
\* failed for coin b, a's price, change, high, low and volume are the fetched
\* snapshot's and a's history ends with the new price after the entries it
\* kept, while b is in every field what it was before the round.
C3_PartialFailure ==
  AfterFetchPrices =>
    \A a \in Succeeded(results) : \A b \in Failed(results) :
      LET t == results[a].val
          ph == pre[a].price_history
          h == coins[a].price_history
      IN /\ coins[a].price = t.last_price
         /\ coins[a].change_24h = t.price_change_percent
         /\ coins[a].high_24h = t.high_price
         /\ coins[a].low_24h = t.low_price
         /\ coins[a].volume_24h = t.volume
         /\ coins[a].symbol = pre[a].symbol
         /\ coins[a].display_name = pre[a].display_name
         /\ h # <<>>
         /\ Last(h)[2] = t.last_price
         /\ \/ SubSeq(h, 1, Len(h) - 1) = ph
            \/ ph # <<>> /\ SubSeq(h, 1, Len(h) - 1) = Tail(ph)
         /\ coins[b] = pre[b]

\* C3 witness: a round with one success and one failure has been merged.
C3_Witness ==
  /\ AfterFetchPrices /\ ev = "Tick"
  /\ Len(coins) = 2
  /\ results[1].ok /\ ~results[2].ok
  /\ coins[1] # pre[1]
  /\ coins[2].price_history # <<>>

\* C4: after a backfill round, every coin whose history request failed has
\* the history and price it had before, and the message naming it was
\* written to the status; every coin whose request succeeded has its history
\* replaced by the fetched points, whatever happened to the others; the
\* status left is the last message written, which names the failed coin when
\* exactly one failed.
C4_BackfillFailureIsolated ==
  AfterLoadHistorical =>
    /\ \A i \in Failed(results) :
         /\ coins[i].price_history = pre[i].price_history
         /\ coins[i].price = pre[i].price
         /\ \E k \in 1..Len(writes) :
              /\ writes[k].text = "Error loading history for"
              /\ writes[k].symbol = coins[i].symbol
              /\ writes[k].cause.kind = results[i].err
    /\ \A i \in Succeeded(results) : coins[i].price_history = results[i].val
    /\ status_message = Last(writes)
    /\ \A i \in Failed(results) :
         Failed(results) = {i} =>
           /\ status_message.text = "Error loading history for"
           /\ status_message.symbol = coins[i].symbol

\* C4 witness: the first coin's request failed, the second's succeeded and
\* its history was replaced.
C4_Witness ==
  /\ AfterLoadHistorical
  /\ Len(coins) = 2
  /\ Failed(results) = {1}
  /\ Len(coins[2].price_history) = MAX_HISTORY
  /\ coins[1].price_history = <<>>
  /\ status_message.symbol = coins[1].symbol

\* C5: when a snapshot round completes, whatever the outcomes, last_update
\* is the completion time of that round and the status is "Updated".
C5_RoundCompletion ==
  AfterFetchPrices =>
    /\ last_update = Some(clock)
    /\ status_message = Plain("Updated")

\* C5 witness: a round in which every request failed has completed.
C5_Witness ==
  /\ AfterFetchPrices /\ ev = "KeyR"
  /\ Len(coins) = 2
  /\ Succeeded(results) = {}
  /\ last_update = Some(2)

\* C6: in either kind of round and for every completion order, the result
\* merged into a coin is the one requested for that coin's symbol: the result
\* at a coin's position carries the coin's symbol, and the coin shows that
\* result's effect and no other's.
C6_MergedBySymbol ==
  /\ (AfterFetchPrices \/ AfterLoadHistorical) =>
       /\ Len(results) = Len(coins)
       /\ \A i \in 1..Len(coins) : results[i].symbol = coins[i].symbol
  /\ AfterFetchPrices =>
       \A i \in 1..Len(coins) :
         IF results[i].ok
         THEN Last(coins[i].price_history) = <<clock, results[i].val.last_price>>
         ELSE coins[i] = pre[i]
  /\ AfterLoadHistorical =>
       \A i \in 1..Len(coins) :
         IF results[i].ok
         THEN coins[i].price_history = results[i].val
         ELSE coins[i] = pre[i]

\* C6 witness: the second request completed before the first, with different
\* outcomes, and the round was merged.
C6_Witness ==
  /\ AfterFetchPrices
  /\ Len(coins) = 2
  /\ completed[1].idx = 2
  /\ results[1].ok /\ results[2].ok
  /\ results[1].val # results[2].val
  /\ coins[1].symbol # coins[2].symbol

\* C7 as stated: the scroll offset lies in the half-open range
\* [0, max(0, symbolCount - visiblePerPage)); where that range is empty (a
\* list no longer than the window) the offset is read as 0.
C7_OffsetInHalfOpenRange ==
  /\ 0 <= scroll_offset
  /\ IF Len(coins) > SCROLL_WINDOW
     THEN scroll_offset < Max(0, Len(coins) - SCROLL_WINDOW)
     ELSE scroll_offset = 0

\* C7 amended: the scroll offset lies in the closed range
\* [0, max(0, symbolCount - 2)], for every symbol count and every sequence
\* of scroll_up and scroll_down.
C7_OffsetInClosedRange ==
  /\ 0 <= scroll_offset
  /\ scroll_offset <= Max(0, Len(coins) - SCROLL_WINDOW)

\* C7 witness: scrolling down reached the upper end of the range.
C7_Witness ==
  /\ ev \in {"KeyDown", "KeyJ"}
  /\ Len(coins) = MAX_COINS
  /\ scroll_offset = MAX_COINS - SCROLL_WINDOW
  /\ prev_offset = scroll_offset - 1

\* C8: scroll_up at offset 0 leaves it 0, scroll_down at the last allowed
\* offset max(0, N - 2) leaves it unchanged, every other scroll moves the
\* offset by exactly one, and offset + 2 never exceeds N except by the
\* 2 - N of a list shorter than the window.
C8_ScrollStopsAtEnds ==
  LET n == Len(coins)
      lastAllowed == Max(0, n - SCROLL_WINDOW)
  IN /\ ev \in {"KeyUp", "KeyK"} =>
          scroll_offset = IF prev_offset = 0 THEN 0 ELSE prev_offset - 1
     /\ ev \in {"KeyDown", "KeyJ"} =>
          scroll_offset = IF prev_offset = lastAllowed THEN prev_offset
                          ELSE prev_offset + 1
     /\ scroll_offset + SCROLL_WINDOW <= Max(n, SCROLL_WINDOW)

\* C8 witness: scroll_down was a no-op at the last allowed offset of a list
\* longer than the window.
C8_Witness ==
  /\ ev \in {"KeyDown", "KeyJ"}
  /\ Len(coins) > SCROLL_WINDOW
  /\ prev_offset = Len(coins) - SCROLL_WINDOW
  /\ scroll_offset = prev_offset

\* C9: every frame shows exactly the panes
\* symbols[page*visiblePerPage .. page*visiblePerPage+visiblePerPage), clipped
\* to the symbol count and in the user's order, the page index is within
\* [0, ceil(total/visiblePerPage)), and it is the position that scroll_up
\* and scroll_down maintain.
C9_PanesFollowNavigation ==
  frame # NoFrame =>
    LET first == frame.page * VISIBLE_PER_PAGE + 1
        last == Min(Len(coins), frame.page * VISIBLE_PER_PAGE + VISIBLE_PER_PAGE)
    IN /\ frame.panes = [i \in 1..(last - first + 1) |-> coins[first + i - 1].display_name]
       /\ 0 <= frame.page
       /\ frame.page < CeilDiv(Len(coins), VISIBLE_PER_PAGE)
       /\ frame.page = frame.offset

\* the positions of the supplied list that hold a valid coin: alphanumeric
\* once trimmed
SuppliedValid(argv) ==
  {k \in 1..Len(argv) : \A i \in 1..Len(trim(argv[k])) : is_alphanumeric(trim(argv[k])[i])}

\* C10: startup is fatal exactly when the supplied list holds no valid
\* (alphanumeric) symbol: the process exits only then, and otherwise the
\* application runs, on valid supplied symbols only.
C10_FatalIffNoValidSymbol ==
  /\ pc = "exit" => SuppliedValid(args) = {}
  /\ pc = "load_historical" =>
       /\ SuppliedValid(args) # {}
       /\ \A i \in 1..Len(coins) :
            \E k \in SuppliedValid(args) :
              coins[i].symbol = to_uppercase(trim(args[k])) \o USDT

\* the history holds exactly the points of the last load_history
JustLoaded == results # <<>> /\ appended[1] = <<>>

\* C11: load_history of n points followed by history_data yields exactly n
\* pairs (i, price_i), i = 0..n-1, in the order of the input, each price
\* unchanged, the index being the rank and not the timestamp.
C11_LoadThenIndexedSeries ==
  (call.fn = "history_data" /\ JustLoaded) =>
    LET data == results[1].val
    IN /\ Len(ret) = Len(data)
       /\ \A j \in 1..Len(data) : ret[j] = <<j - 1, data[j][2]>>

\* C11 witness: two points, the later one first, were loaded and projected.
C11_Witness ==
  /\ call.fn = "history_data"
  /\ JustLoaded
  /\ results[1].val = <<<<2000, 110>>, <<1000, 100>>>>
  /\ ret = <<<<0, 110>>, <<1, 100>>>>

\* C12: load_history replaces the whole previous history by the points
\* given; it sets price to the last point's price when there is one and
\* leaves price as it was when there is none; change_24h, high_24h, low_24h
\* and volume_24h are unchanged in both cases.
C12_LoadHistoryEffect ==
  call.fn = "load_history" =>
    /\ coins[1].price_history = call.arg
    /\ coins[1].price = IF call.arg # <<>> THEN call.arg[Len(call.arg)][2]
                        ELSE pre[1].price
    /\ coins[1].change_24h = pre[1].change_24h
    /\ coins[1].high_24h = pre[1].high_24h
    /\ coins[1].low_24h = pre[1].low_24h
    /\ coins[1].volume_24h = pre[1].volume_24h

\* C12 witness: the points of app.rs:204 replaced a history that update had
\* written to, on a coin whose 24h fields were set.
C12_Witness ==
  /\ call.fn = "load_history"
  /\ call.arg = <<<<1000, 100>>, <<2000, 110>>, <<3000, 105>>>>
  /\ Len(pre[1].price_history) = 4
  /\ pre[1].volume_24h # 0
  /\ coins[1].price = 105
  /\ Len(coins[1].price_history) = 3

PriceSet(coin) == {coin.price_history[j][2] : j \in 1..Len(coin.price_history)}

DigitSet == {DigitChars[i] : i \in 1..10}
DigitVal(ch) == (CHOOSE i \in 1..10 : DigitChars[i] = ch) - 1
Digs(str) == str # <<>> /\ \A j \in 1..Len(str) : str[j] \in DigitSet

RECURSIVE ParseNat(_)
ParseNat(str) ==
  IF str = <<>> THEN 0
  ELSE 10 * ParseNat(SubSeq(str, 1, Len(str) - 1)) + DigitVal(str[Len(str)])

NotComma(ch) == ch # ","
Unsigned(str) == IF str # <<>> /\ str[1] = "-" THEN Tail(str) ELSE str

\* str is prefix, body, suffix
Framed(str, prefix, suffix) ==
  /\ Len(str) >= Len(prefix) + Len(suffix)
  /\ SubSeq(str, 1, Len(prefix)) = prefix
  /\ SubSeq(str, Len(str) - Len(suffix) + 1, Len(str)) = suffix
Body(str, prefix, suffix) == SubSeq(str, Len(prefix) + 1, Len(str) - Len(suffix))

\* body is an optional sign, digits, a point and exactly d digits
HasDecimals(body, d) ==
  LET u == Unsigned(body)
      n == Len(u)
  IN /\ n >= d + 2
     /\ u[n - d] = "."
     /\ Digs(SubSeq(u, 1, n - d - 1))
     /\ Digs(SubSeq(u, n - d + 1, n))

\* the number a body with d decimals shows, in units of 10^-d
Shown(body, d) ==
  LET u == Unsigned(body)
      n == Len(u)
  IN Pow10(d) * ParseNat(SubSeq(u, 1, n - d - 1)) + ParseNat(SubSeq(u, n - d + 1, n))

\* str is prefix, a number with one decimal that is v / 10^k to the tenth,
\* and suffix
OneDecimal(str, prefix, suffix, v, k) ==
  /\ Framed(str, prefix, suffix)
  /\ HasDecimals(Body(str, prefix, suffix), 1)
  /\ Shown(Body(str, prefix, suffix), 1) \in
       {v.units \div Pow10(k - 1), (v.units \div Pow10(k - 1)) + 1}

\* str is prefix and a number with two decimals and no suffix
TwoDecimals(str, prefix) ==
  /\ Framed(str, prefix, <<>>)
  /\ HasDecimals(Body(str, prefix, <<>>), 2)

\* str is an integer: an optional sign and digits
NoDecimals(str) == Digs(Unsigned(str))

\* v > t for a threshold t > 0 of whole units
gt(v, t) == ~v.neg /\ (v.units > t \/ (v.units = t /\ v.mills > 0))

\* C14: format_price of a non-negative value with at most two decimals is
\* "$", the integer part, "." and exactly two digits, the value's cents; the
\* integer part of a value >= 1000 has a comma every three digits counted
\* leftward from the point and nowhere else, that of a value < 1000 has
\* none; 0.50 -> "$0.50", 1000.00 -> "$1,000.00", 42069.42 -> "$42,069.42",
\* 100000.00 -> "$100,000.00".
C14_FormatCurrency ==
  (call.fn = "format_price" /\ ~call.arg.neg /\ call.arg.mills % 10 = 0) =>
    LET v == call.arg
        n == Len(ret)
        int == SubSeq(ret, 2, n - 3)
        cents == v.mills \div 10
    IN /\ n >= 5
       /\ ret[1] = "$"
       /\ ret[n - 2] = "."
       /\ <<ret[n - 1], ret[n]>> = <<digit(cents \div 10), digit(cents % 10)>>
       /\ Digs(SelectSeq(int, NotComma))
       /\ ParseNat(SelectSeq(int, NotComma)) = v.units
       /\ Len(int) > 1 => int[1] # "0"
       /\ \A j \in 1..Len(int) :
            int[Len(int) - j + 1] = "," <=> (v.units >= 1000 /\ j % 4 = 0)
       /\ v = F64(FALSE, 0, 500) => ret = <<"$", "0", ".", "5", "0">>
       /\ v = F64(FALSE, 1000, 0) => ret = <<"$", "1", ",", "0", "0", "0", ".", "0", "0">>
       /\ v = F64(FALSE, 42069, 420) =>
            ret = <<"$", "4", "2", ",", "0", "6", "9", ".", "4", "2">>
       /\ v = F64(FALSE, 100000, 0) =>
            ret = <<"$", "1", "0", "0", ",", "0", "0", "0", ".", "0", "0">>

\* C14 witness: a value with two groups of three digits was formatted.
C14_Witness ==
  /\ call.fn = "format_price"
  /\ call.arg = F64(FALSE, 1234567, 990)
  /\ ret = <<"$", "1", ",", "2", "3", "4", ",", "5", "6", "7", ".", "9", "9">>

\* C15 as stated: format_price_short renders v above 1,000,000 with one
\* decimal and "M", v above 1,000 and at most 1,000,000 with one decimal and
\* "k", and v at most 1,000, exactly 1,000 included, in the two-decimal "$"
\* form.
C15_CompactCurrencyAbove ==
  call.fn = "format_price_short" =>
    LET v == call.arg
    IN IF gt(v, 1000000) THEN OneDecimal(ret, <<"$">>, <<"M">>, v, 6)
       ELSE IF gt(v, 1000) THEN OneDecimal(ret, <<"$">>, <<"k">>, v, 3)
       ELSE TwoDecimals(ret, <<"$">>)

\* C15 amended: format_price_short renders v >= 1,000,000 with one decimal
\* and "M", 1,000 <= v < 1,000,000 with one decimal and "k", and v < 1,000
\* in the two-decimal "$" form.
C15_CompactCurrencyFrom ==
  call.fn = "format_price_short" =>
    LET v == call.arg
    IN IF ge(v, 1000000) THEN OneDecimal(ret, <<"$">>, <<"M">>, v, 6)
       ELSE IF ge(v, 1000) THEN OneDecimal(ret, <<"$">>, <<"k">>, v, 3)
       ELSE TwoDecimals(ret, <<"$">>)

\* C15 witness: exactly 1,000 was rendered as "$1.0k".
C15_Witness ==
  /\ call.fn = "format_price_short"
  /\ call.arg = F64(FALSE, 1000, 0)
  /\ ret = <<"$", "1", ".", "0", "k">>

\* C16 as stated: format_volume renders v above 1e9 with one decimal and
\* "B", v above 1e6 and at most 1e9 with one decimal and "M", v above 1e3 and
\* at most 1e6 with one decimal and "K", and v at most 1e3, exactly 1,000
\* included, as an integer with no decimals and no suffix.
C16_CompactMagnitudeAbove ==
  call.fn = "format_volume" =>
    LET v == call.arg
    IN IF gt(v, 1000000000) THEN OneDecimal(ret, <<>>, <<"B">>, v, 9)
       ELSE IF gt(v, 1000000) THEN OneDecimal(ret, <<>>, <<"M">>, v, 6)
       ELSE IF gt(v, 1000) THEN OneDecimal(ret, <<>>, <<"K">>, v, 3)
       ELSE NoDecimals(ret)

\* C16 amended: format_volume renders v >= 1e9 with one decimal and "B",
\* 1e6 <= v < 1e9 with one decimal and "M", 1e3 <= v < 1e6 with one decimal
\* and "K", and v < 1e3 as an integer with no decimals and no suffix.
C16_CompactMagnitudeFrom ==
  call.fn = "format_volume" =>
    LET v == call.arg
    IN IF ge(v, 1000000000) THEN OneDecimal(ret, <<>>, <<"B">>, v, 9)
       ELSE IF ge(v, 1000000) THEN OneDecimal(ret, <<>>, <<"M">>, v, 6)
       ELSE IF ge(v, 1000) THEN OneDecimal(ret, <<>>, <<"K">>, v, 3)
       ELSE NoDecimals(ret)

\* C16 witness: exactly 1e6 was rendered as "1.0M".
C16_Witness ==
  /\ call.fn = "format_volume"
  /\ call.arg = F64(FALSE, 1000000, 0)
  /\ ret = <<"1", ".", "0", "M">>

\* the cells of a rectangle
Cells(r) ==
  {<<cx, cy>> : cx \in r.x..(r.x + r.width - 1), cy \in r.y..(r.y + r.height - 1)}

\* two columns, side by side, that together span area
Columns(l, r, area) ==
  /\ l.y = area.y /\ r.y = area.y
  /\ l.height = area.height /\ r.height = area.height
  /\ l.x = area.x /\ r.x = l.x + l.width
  /\ l.width + r.width = area.width

\* two rows, one above the other, that together span area
Rows(t, b, area) ==
  /\ t.x = area.x /\ b.x = area.x
  /\ t.width = area.width /\ b.width = area.width
  /\ t.y = area.y /\ b.y = t.y + t.height
  /\ t.height + b.height = area.height

\* the part of area below the height of top
Below(area, top) == Rect(area.x, area.y + top.height, area.width, area.height - top.height)

\* C17: calculate_grid_layout returns exactly min(n, 4) rectangles, by the
\* template of the count (none; the viewport; two columns; a full-width top
\* row over two columns; a 2x2 grid), and the rectangles lie inside the
\* viewport and no two of them share a cell.
C17_GridLayout ==
  call.fn = "calculate_grid_layout" =>
    LET n == call.arg.count
        area == call.arg.area
    IN /\ Len(ret) = Min(n, 4)
       /\ n = 1 => ret = <<area>>
       /\ n = 2 => Columns(ret[1], ret[2], area)
       /\ n = 3 =>
            /\ ret[1].x = area.x /\ ret[1].y = area.y /\ ret[1].width = area.width
            /\ Rows(ret[1], Below(area, ret[1]), area)
            /\ Columns(ret[2], ret[3], Below(area, ret[1]))
       /\ n >= 4 =>
            /\ Columns(ret[1], ret[2], Rect(area.x, area.y, area.width, ret[1].height))
            /\ Columns(ret[3], ret[4], Below(area, ret[1]))
            /\ ret[3].width = ret[1].width
       /\ \A i \in 1..Len(ret) : Cells(ret[i]) \subseteq Cells(area)
       /\ \A i \in 1..Len(ret) : \A j \in 1..Len(ret) :
            i # j => Cells(ret[i]) \cap Cells(ret[j]) = {}

\* C17 witness: three panes in a viewport of odd width and height: the top
\* row and the two bottom columns are three rectangles with cells.
C17_Witness ==
  /\ call.fn = "calculate_grid_layout"
  /\ call.arg = [count |-> 3, area |-> Rect(3, 2, 5, 5)]
  /\ Len(ret) = 3
  /\ \A i \in 1..3 : Cells(ret[i]) # {}
  /\ Cells(ret[1]) \cup Cells(ret[2]) \cup Cells(ret[3]) = Cells(call.arg.area)

\* a round's requests are being awaited
Awaiting == pc \in {"await_klines", "await_tickers"}

\* C18: rounds never overlap: requests are outstanding only while the one
\* round that sent them is awaited; a round, of either kind and whatever
\* event asked for it, starts only when every request of the round before
\* has completed and its results have been merged; events are received only
\* when nothing is outstanding; and no coin changes while a round is
\* awaited.
C18_RoundsDoNotOverlap ==
  /\ Pending # {} => Awaiting
  /\ Awaiting => coins = pre
  /\ pc \in {"load_historical", "fetch_prices", "events_next"} =>
       /\ Pending = {}
       /\ req # <<>> => results = join_all(Len(req), completed)
  /\ pc = "load_historical" => req = <<>>

\* C18 witness: the round a Tick asked for is awaited, one request answered
\* and one in flight, after the two startup rounds were merged.
C18_Witness ==
  /\ pc = "await_tickers"
  /\ ev = "Tick"
  /\ started = [klines |-> 1, tickers |-> 2, refreshes |-> 1]
  /\ Len(req) = 2
  /\ Len(completed) = 1
  /\ coins[1].price_history # <<>>

\* C19: exactly one backfill round and then exactly one snapshot round run
\* at startup, both complete before the first frame; afterwards every Tick
\* and every 'r' starts exactly one snapshot round, no other event starts
\* one, and the backfill never runs again.
C19_RoundSchedule ==
  /\ started.klines <= 1
  /\ pc \in {"main", "exit", "load_historical"} => started = NoneStarted
  /\ pc = "await_klines" => started = [klines |-> 1, tickers |-> 0, refreshes |-> 0]
  /\ pc = "fetch_prices" =>
       /\ started.klines = 1
       /\ started.tickers = started.refreshes
  /\ pc \in {"await_tickers", "draw", "events_next", "done"} =>
       /\ started.klines = 1
       /\ started.tickers = 1 + started.refreshes
  /\ (pc = "draw" /\ frame = NoFrame) =>
       /\ started = [klines |-> 1, tickers |-> 1, refreshes |-> 0]
       /\ clock = 1
       /\ ev = "startup"
  /\ frame # NoFrame => clock >= 1
  /\ (pc = "draw" /\ ev \in {"Tick", "KeyR"}) => clock = 1 + started.refreshes

\* C19 witness: after the startup rounds and a frame, key 'r' started the
\* one round that has now completed.
C19_Witness ==
  /\ pc = "draw"
  /\ ev = "KeyR"
  /\ frame # NoFrame
  /\ started = [klines |-> 1, tickers |-> 2, refreshes |-> 1]
  /\ clock = 2

\* C20: once the coins are created, no operation changes a coin's symbol or
\* display_name, nor the number or order of the coins: the symbols are the
\* accepted symbols in the order given, and each display_name is what
\* CoinData::new computed from the symbol, the symbol with "/" before its
\* "USDT".
C20_IdentityAndOrderStable ==
  pc \notin {"main", "exit"} =>
    /\ SymbolsOf(coins) = symbols
    /\ symbols = ParseSymbols(args)
    /\ \A i \in 1..Len(coins) :
         LET sym == coins[i].symbol
         IN /\ coins[i].display_name = CoinData_new(symbols[i]).display_name
            /\ coins[i].display_name =
                 SubSeq(sym, 1, Len(sym) - 4) \o <<"/", "U", "S", "D", "T">>

\* C20 witness: two coins went through a backfill, a snapshot round in which
\* one succeeded and one failed, and quit.
C20_Witness ==
  /\ pc = "done"
  /\ ~running
  /\ Len(coins) = 2
  /\ started.refreshes = 1
  /\ results[1].ok /\ ~results[2].ok
  /\ coins[1].price_history # <<>>
  /\ coins[2].price_history # <<>>

\* C21: in every reachable state, a coin whose price history is not empty
\* has as price the price of the last history entry, after load_history,
\* after update, and after rounds that failed for it.
C21_PriceIsNewestEntry ==
  \A i \in 1..Len(coins) :
    coins[i].price_history # <<>> =>
      coins[i].price = coins[i].price_history[Len(coins[i].price_history)][2]

\* C21 witness: a coin was loaded, updated by a round, and then left alone
\* by a round that failed for it while the other coin's succeeded.
C21_Witness ==
  /\ AfterFetchPrices /\ ev = "Tick"
  /\ Len(coins) = 2
  /\ ~results[1].ok /\ results[2].ok
  /\ Len(appended[1]) = 1
  /\ Len(coins[1].price_history) = 2
  /\ coins[1].price = appended[1][1]
  /\ coins[1].price # coins[1].price_history[1][2]

\* the status texts a frame may show
FrameTexts == {"Updated", "Fetching...", "Refreshing..."}

\* C22: every frame drawn shows the status "Updated", "Fetching..." or
\* "Refreshing...": an error message written during a round is overwritten
\* before the next frame.
C22_NoErrorOnFrame ==
  frame # NoFrame =>
    /\ frame.status.text \in FrameTexts
    /\ frame.status = Plain(frame.status.text)

\* C22 witness: a frame was drawn after a snapshot round that wrote an error
\* message, and shows "Updated".
C22_Witness ==
  /\ pc = "events_next"
  /\ ev = "none"
  /\ started.refreshes = 1
  /\ writes # <<>>
  /\ writes[1].text = "Error fetching"
  /\ frame.status = Plain("Updated")

QuitEvents == {"KeyQ", "KeyEsc", "Quit"}
\* App exists and quit has been called: running is set by App::new and
\* cleared by quit alone
HasQuit == ~running /\ pc \notin {"main", "exit"}

\* C23: a quit event clears running and ends the loop in the same
\* iteration; from then on running stays false, no round is started or
\* outstanding, and no coin changes.
C23_QuitIsFinal ==
  /\ [](ev \in QuitEvents => HasQuit)
  /\ [](HasQuit => (pc = "done" /\ ev \in QuitEvents /\ Pending = {}))
  /\ [][HasQuit => (~running' /\ coins' = coins /\ started' = started /\ pc' = "done")]_vars
  /\ [][(pc = "events_next" /\ ev' \in QuitEvents) =>
          (HasQuit' /\ pc' = "done" /\ coins' = coins /\ started' = started)]_vars

\* C23 witness: Esc was pressed after a refresh round, the loop has ended.
C23_Witness ==
  /\ pc = "done"
  /\ ev = "KeyEsc"
  /\ ~running
  /\ started = [klines |-> 1, tickers |-> 2, refreshes |-> 1]
  /\ coins[1].price_history # <<>>

====
